---- MODULE Spec2Model ----
(***************************************************************************)
(* The user session and quota state machine of the face-swap bot:          *)
(* bot/message_handler.py (the chat handlers) over                         *)
(* research/db/db_requests.py (the storage functions).                     *)
(*                                                                         *)
(* Every inbound event runs as its own asyncio task.  A task is suspended  *)
(* at every await that reaches the database, the worker or the network, so *)
(* each storage function is two steps: the SELECT that loads the ORM       *)
(* object (its "row"), and the commit that flushes the attributes the      *)
(* Python code changed on it.  A flush writes only the attributes whose    *)
(* value differs from the loaded one (the ORM's UPDATE lists changed       *)
(* columns only); SQLite takes no lock for the SELECT, so any other task   *)
(* may commit between the two steps.                                       *)
(***************************************************************************)
EXTENDS Integers, Sequences, FiniteSets, TLC

VARIABLES
    users,          \* table users: user_id -> row (only existing rows)
    purchases,      \* table premium_purchases, in insertion order
    image_names,    \* table image_names, in insertion order
    scheduler_logs, \* table scheduler_logs, in insertion order
    SENT_TIME,      \* message_handler.SENT_TIME: user_id -> <<>> or <<time>>
    now,            \* datetime.now(), in seconds since the process started
    ticks,          \* how many times the clock has advanced
    tasks           \* the handler tasks: position and local variables

vars == <<users, purchases, image_names, scheduler_logs, SENT_TIME, now, ticks, tasks>>

----------------------------------------------------------------------------
(* Bounds of the model *)

MaxTasks == 2
MaxOutputs == 3
MaxTicks == 2

(* Program constants *)

DELAY_BETWEEN_IMAGES == 2
N_TIME == 20
FREE_REQUESTS == 10
REQUEST_INCREMENT == 100
TARGETS_INCREMENT == 10
DEFAULT_MODE == 1
PREMIUM_DAYS == 30
HOUR_INTERVAL == 24
NumButtons == 12

DaySecs == 24 * 3600
HourSecs == 60 * 60

Uids == {"u1", "u2"}
Senders == {"u1"}
TaskIds == 1..MaxTasks

----------------------------------------------------------------------------
(* Values *)

None == <<>>
Some(x) == <<x>>
IsSome(o) == Len(o) = 1
Get(o) == o[1]

Max(a, b) == IF a >= b THEN a ELSE b
Min(a, b) == IF a <= b THEN a ELSE b

\* datetime.date(): the day a time falls in
DateOf(t) == t \div DaySecs

\* mode: a preset number (the button's callback data) or an uploaded image
Preset(n) == [kind |-> "preset", id |-> n]
Image(n) == [kind |-> "image", id |-> n]

\* a new row that waits for a target photo
User_awaiting_target ==
    [mode |-> Preset(DEFAULT_MODE),
     receive_target_flag |-> 1,
     status |-> "free",
     requests_left |-> FREE_REQUESTS,
     targets_left |-> 0,
     last_photo_sent_timestamp |-> 0,
     premium_expiration |-> None]

\* User(...): the column defaults of a new row
User == [mode |-> Preset(DEFAULT_MODE),
         receive_target_flag |-> 0,
         status |-> "free",
         requests_left |-> FREE_REQUESTS,
         targets_left |-> 0,
         last_photo_sent_timestamp |-> 0,
         premium_expiration |-> None]

\* PremiumPurchase(...)
PremiumPurchase(u, t) ==
    [user_id |-> u,
     purchase_date |-> DateOf(t),
     expiration_date |-> DateOf(t + PREMIUM_DAYS * DaySecs),
     targets_increment |-> TARGETS_INCREMENT,
     request_increment |-> REQUEST_INCREMENT]

\* a row of scheduler_logs (log_scheduler_run, line 198)
SchedulerLog(t) == [job_name |-> "update_user_quotas", run_datetime |-> t]

\* ImageName(...)
ImageName(u, name) == [user_id |-> u, input_image_name |-> name, output_image_names |-> None]

\* select(User).filter_by(user_id=u) ... scalar_one_or_none()
Select(u) == IF u \in DOMAIN users THEN Some(users[u]) ELSE None

\* session.commit() of a loaded and then modified object: UPDATE of the columns
\* whose value differs from the loaded one, on the row as it is now
Flush(cur, loaded, obj) ==
    [f \in DOMAIN cur |-> IF obj[f] = loaded[f] THEN cur[f] ELSE obj[f]]

RECURSIVE SumRequests(_)
\* sum(purchase.request_increment for purchase in active_purchases)
SumRequests(s) == IF s = <<>> THEN 0 ELSE Head(s).request_increment + SumRequests(Tail(s))

RECURSIVE SumTargets(_)
\* sum(purchase.targets_increment for purchase in active_purchases)
SumTargets(s) == IF s = <<>> THEN 0 ELSE Head(s).targets_increment + SumTargets(Tail(s))

EmptyFn == [x \in {} |-> x]

----------------------------------------------------------------------------
(* Tasks *)

\* a reply sent to the user: message.answer(...) / message.answer_photo(...)
Reply(k, n) == [kind |-> k, n |-> n]

\* a handler task that has not been started
NewTask ==
    [kind |-> "none", uid |-> "u1", pc |-> "idle",
     row |-> None,       \* the ORM object loaded by the storage call in progress
     user |-> None,      \* the handler's variable user
     snap |-> EmptyFn,   \* update_user_quotas: the users loaded
     grouped |-> FALSE,  \* message.media_group_id is not None
     ts |-> 0,           \* the timestamp argument of update_photo_timestamp
     flag |-> 0,         \* the flag argument of toggle_receive_target_flag
     pick |-> Preset(DEFAULT_MODE), \* the mode argument of update_user_mode
     outs |-> <<>>,      \* image_paths: the worker's output references
     i |-> 0,            \* index of the output being sent
     sent |-> 0,         \* output photos sent to the user
     r0 |-> 0,           \* requests_left of the user fetched on entry
     worker |-> "none",  \* the worker call: none, called, ok, failed
     replies |-> <<>>,   \* the replies sent, in order
     out |-> "none"]     \* how the handler ended

\* the handler returns or raises: its local variables are gone
Finish(task, out) ==
    [task EXCEPT !.pc = "done", !.out = out, !.row = None, !.user = None,
                 !.snap = EmptyFn, !.i = 0, !.ts = 0, !.flag = 0,
                 !.pick = Preset(DEFAULT_MODE)]

Say(task, k, n) == [task EXCEPT !.replies = Append(@, Reply(k, n))]

\* the first storage call of a handler after exist_user_check
AfterEnsure(kind) ==
    CASE kind = "photo" -> "fetch"
      [] kind = "buy" -> "buy_read"
      [] kind = "reset" -> "set_read"
      [] kind = "new_targets" -> "rf_read"

\* tasks are started in the order of their ids
CanStart(t) ==
    /\ tasks[t].pc = "idle"
    /\ \A s \in TaskIds : s < t => tasks[s].pc # "idle"

AtPc(t, pc) == tasks[t].pc = pc

UNCHANGED_DB == UNCHANGED <<users, purchases, image_names, scheduler_logs>>
UNCHANGED_ENV == UNCHANGED <<SENT_TIME, now, ticks>>

\* the SELECT of a storage function: load the user's row
Read(t, next) ==
    /\ tasks' = [tasks EXCEPT ![t].row = Select(tasks[t].uid), ![t].pc = next]
    /\ UNCHANGED_DB
    /\ UNCHANGED_ENV

\* the commit of a storage function: flush obj, the loaded row as modified
Commit(t, obj) ==
    LET u == tasks[t].uid
        row == tasks[t].row
    IN  users' = IF IsSome(row) /\ u \in DOMAIN users
                 THEN [users EXCEPT ![u] = Flush(users[u], Get(row), obj)]
                 ELSE users

----------------------------------------------------------------------------
(* The clock *)

Tick(d) ==
    /\ ticks < MaxTicks
    /\ ticks' = ticks + 1
    /\ now' = now + d
    /\ UNCHANGED_DB
    /\ UNCHANGED <<SENT_TIME, tasks>>

----------------------------------------------------------------------------
(* exist_user_check -> insert_user *)

\* insert_user that writes a row of defaults whether the user exists or not
insert_user_defaults(us, u) == (u :> User) @@ us

\* insert_user, lines 268-276: what the commit leaves in users.  Of an
\* existing user it rewrites the names only, which the model does not hold.
insert_user(us, u) == IF u \in DOMAIN us THEN us ELSE (u :> User) @@ us

\* insert_user: the SELECT and, for a user it finds, the commit
EnsureRead(t) ==
    /\ AtPc(t, "ensure")
    /\ tasks' = [tasks EXCEPT ![t].pc =
                    IF tasks[t].uid \in DOMAIN users
                    THEN AfterEnsure(tasks[t].kind) ELSE "ensure_commit"]
    /\ users' = IF tasks[t].uid \in DOMAIN users
                THEN insert_user(users, tasks[t].uid) ELSE users
    /\ UNCHANGED <<purchases, image_names, scheduler_logs>>
    /\ UNCHANGED_ENV

\* insert_user: the INSERT of a user the SELECT did not find.  users.user_id
\* is unique: when another task inserted the user meanwhile the INSERT raises.
EnsureCommit(t) ==
    /\ AtPc(t, "ensure_commit")
    /\ IF tasks[t].uid \in DOMAIN users
       THEN /\ tasks' = [tasks EXCEPT ![t] = Finish(@, "raised")]
            /\ UNCHANGED users
       ELSE /\ users' = insert_user(users, tasks[t].uid)
            /\ tasks' = [tasks EXCEPT ![t].pc = AfterEnsure(tasks[t].kind)]
    /\ UNCHANGED <<purchases, image_names, scheduler_logs>>
    /\ UNCHANGED_ENV

----------------------------------------------------------------------------
(* The quota functions of db_requests.py: what each does to the loaded object *)

\* decrement_requests_left that ignores its argument n
decrement_requests_left_by_one(user, n) ==
    [user EXCEPT !.requests_left = Max(0, user.requests_left - 1)]

\* decrement_requests_left without the floor at zero
decrement_requests_left_unclamped(user, n) ==
    [user EXCEPT !.requests_left = user.requests_left - n]

\* decrement_requests_left, lines 309-313
decrement_requests_left(user, n) ==
    IF user.requests_left > 0
    THEN [user EXCEPT !.requests_left = Max(0, user.requests_left - n)]
    ELSE [user EXCEPT !.requests_left = 0]

\* decrement_targets_left, lines 329-331
decrement_targets_left(user, n) ==
    IF user.targets_left > 0
    THEN [user EXCEPT !.targets_left = Max(0, user.targets_left - n)]
    ELSE user

\* buy_premium that sets the counters to the increments of the purchase
buy_premium_overwriting(user, t) ==
    [user EXCEPT !.requests_left = REQUEST_INCREMENT,
                 !.targets_left = TARGETS_INCREMENT,
                 !.status = "premium",
                 !.premium_expiration = Some(DateOf(t + PREMIUM_DAYS * DaySecs))]

\* buy_premium, lines 381-384; t is datetime.now() of line 369
buy_premium(user, t) ==
    [user EXCEPT !.requests_left = @ + REQUEST_INCREMENT,
                 !.targets_left = @ + TARGETS_INCREMENT,
                 !.status = "premium",
                 !.premium_expiration = Some(DateOf(t + PREMIUM_DAYS * DaySecs))]

\* update_user_mode that falls back to the default mode
update_user_mode_default(user, mode) == [user EXCEPT !.mode = Preset(DEFAULT_MODE)]

\* update_user_mode, line 292
update_user_mode(user, mode) == [user EXCEPT !.mode = mode]

\* toggle_receive_target_flag, line 685
toggle_receive_target_flag(user, flag) == [user EXCEPT !.receive_target_flag = flag]

\* update_photo_timestamp that also charges the request when the photo is accepted
update_photo_timestamp_charging(user, timestamp) ==
    [user EXCEPT !.last_photo_sent_timestamp = timestamp,
                 !.requests_left = Max(0, @ - 1)]

\* update_photo_timestamp that stores nothing
update_photo_timestamp_noop(user, timestamp) == user

\* update_photo_timestamp, line 669
update_photo_timestamp(user, timestamp) ==
    [user EXCEPT !.last_photo_sent_timestamp = timestamp]

\* update_user_quotas, lines 723-726: the purchases of u that have not expired
ActivePurchases(ps, u, today) ==
    SelectSeq(ps, LAMBDA p : p.user_id = u /\ p.expiration_date >= today)

\* the DELETE taking the purchases that expire today as well
DeleteExpired_through_today(ps, u, today) ==
    SelectSeq(ps, LAMBDA p : ~(p.user_id = u /\ p.expiration_date <= today))

\* update_user_quotas, lines 718-720: DELETE of the expired purchases of u
DeleteExpired(ps, u, today) ==
    SelectSeq(ps, LAMBDA p : ~(p.user_id = u /\ p.expiration_date < today))

\* update_user_quotas that takes the increments of the latest purchase alone
update_user_last_purchase(user, active, free_requests) ==
    IF active # <<>>
    THEN [user EXCEPT !.requests_left = active[Len(active)].request_increment,
                      !.targets_left = active[Len(active)].targets_increment]
    ELSE [user EXCEPT !.status = "free",
                      !.requests_left = free_requests,
                      !.premium_expiration = None]

\* update_user_quotas adding the increments to what the user has left
update_user_accumulating(user, active, free_requests) ==
    IF active # <<>>
    THEN [user EXCEPT !.requests_left = @ + SumRequests(active),
                      !.targets_left = @ + SumTargets(active)]
    ELSE [user EXCEPT !.status = "free",
                      !.requests_left = free_requests,
                      !.premium_expiration = None]

\* update_user_quotas that resets the counter of a user without purchases but
\* leaves the status
update_user_keeping_status(user, active, free_requests) ==
    IF active # <<>>
    THEN [user EXCEPT !.requests_left = SumRequests(active),
                      !.targets_left = SumTargets(active)]
    ELSE [user EXCEPT !.requests_left = free_requests,
                      !.premium_expiration = None]

\* update_user_quotas, lines 728-740: one user of the loop
update_user(user, active, free_requests) ==
    IF active # <<>>
    THEN [user EXCEPT !.requests_left = SumRequests(active),
                      !.targets_left = SumTargets(active)]
    ELSE [user EXCEPT !.status = "free",
                      !.requests_left = free_requests,
                      !.premium_expiration = None]

----------------------------------------------------------------------------
(* set_user_to_premium: exist_user_check, buy_premium, fetch_user_data, reply *)

OnBuyPremium(t, u) ==
    /\ CanStart(t)
    /\ tasks' = [tasks EXCEPT ![t] = [NewTask EXCEPT !.kind = "buy", !.uid = u, !.pc = "ensure"]]
    /\ UNCHANGED_DB
    /\ UNCHANGED_ENV

\* buy_premium: the SELECT, and datetime.now() of line 369
BuyRead(t) ==
    /\ AtPc(t, "buy_read")
    /\ tasks' = [tasks EXCEPT ![t].row = Select(tasks[t].uid), ![t].ts = now,
                              ![t].pc = "buy_commit"]
    /\ UNCHANGED_DB
    /\ UNCHANGED_ENV

\* buy_premium: the commit.  INSERT of the purchase and UPDATE of the user.
\* premium_expiration is assigned a datetime, which never equals the date
\* loaded, so the column is always written.
BuyCommit(t) ==
    LET u == tasks[t].uid
        row == tasks[t].row
    IN  /\ AtPc(t, "buy_commit")
        /\ IF IsSome(row)
           THEN LET obj == buy_premium(Get(row), tasks[t].ts)
                IN  /\ users' = [users EXCEPT ![u] =
                          [Flush(users[u], Get(row), obj)
                              EXCEPT !.premium_expiration = obj.premium_expiration]]
                    /\ purchases' = Append(purchases, PremiumPurchase(u, tasks[t].ts))
           ELSE UNCHANGED <<users, purchases>>
        /\ tasks' = [tasks EXCEPT ![t].row = None, ![t].pc = "buy_fetch"]
        /\ UNCHANGED <<image_names, scheduler_logs>>
        /\ UNCHANGED_ENV

\* fetch_user_data and the reply of set_user_to_premium
BuyFetch(t) ==
    /\ AtPc(t, "buy_fetch")
    /\ tasks' = [tasks EXCEPT ![t] =
          IF tasks[t].uid \in DOMAIN users
          THEN Finish(Say(@, "premium", users[tasks[t].uid].requests_left), "ok")
          ELSE Finish(@, "raised")]
    /\ UNCHANGED_DB
    /\ UNCHANGED_ENV

----------------------------------------------------------------------------
(* reset_images_left: exist_user_check, set_requests_left(user_id, 10), ... *)

OnResetLimit(t, u) ==
    /\ CanStart(t)
    /\ tasks' = [tasks EXCEPT ![t] = [NewTask EXCEPT !.kind = "reset", !.uid = u, !.pc = "ensure"]]
    /\ UNCHANGED_DB
    /\ UNCHANGED_ENV

\* set_requests_left: the SELECT and lines 347-352.  Line 350 assigns None to
\* the collection premium_purchases, which the ORM refuses with a TypeError
\* ("Incompatible collection type: None is not list-like"): the transaction is
\* rolled back, nothing is written, and the handler ends with the exception.
\* Only for an unknown user does the function reach its commit, with nothing
\* to write; the handler then raises on new_number.requests_left.
SetRead(t) ==
    /\ AtPc(t, "set_read")
    /\ tasks' = [tasks EXCEPT ![t] = Finish(@, "raised")]
    /\ UNCHANGED_DB
    /\ UNCHANGED_ENV

----------------------------------------------------------------------------
(* decrement_targets_left(user_id, n), called on its own *)

OnDecrementTargets(t, u, n) ==
    /\ CanStart(t)
    /\ tasks' = [tasks EXCEPT ![t] =
          [NewTask EXCEPT !.kind = "dec_targets", !.uid = u, !.flag = n, !.pc = "dt_read"]]
    /\ UNCHANGED_DB
    /\ UNCHANGED_ENV

DecTargetsRead(t) ==
    /\ AtPc(t, "dt_read")
    /\ Read(t, "dt_commit")

DecTargetsCommit(t) ==
    /\ AtPc(t, "dt_commit")
    /\ Commit(t, decrement_targets_left(Get(tasks[t].row), tasks[t].flag))
    /\ tasks' = [tasks EXCEPT ![t] = Finish(@, "ok")]
    /\ UNCHANGED <<purchases, image_names, scheduler_logs>>
    /\ UNCHANGED_ENV

----------------------------------------------------------------------------
(* toggle_receive_target_flag and update_user_mode, as called by               *)
(* set_receive_flag, button_callback_handler and target_image_check            *)

ToggleRead(t) ==
    /\ AtPc(t, "tog_read")
    /\ Read(t, "tog_commit")

ToggleCommit(t) ==
    /\ AtPc(t, "tog_commit")
    /\ Commit(t, toggle_receive_target_flag(Get(tasks[t].row), tasks[t].flag))
    /\ tasks' = [tasks EXCEPT ![t] =
          CASE @.kind = "new_targets" -> Finish(Say(@, "send_target", 0), "ok")
            [] @.kind = "button" -> [@ EXCEPT !.row = None, !.pc = "mode_read"]
            [] @.kind = "photo" -> Finish(Say(@, "target_uploaded", 0), "target")]
    /\ UNCHANGED <<purchases, image_names, scheduler_logs>>
    /\ UNCHANGED_ENV

ModeRead(t) ==
    /\ AtPc(t, "mode_read")
    /\ Read(t, "mode_commit")

ModeCommit(t) ==
    /\ AtPc(t, "mode_commit")
    /\ Commit(t, update_user_mode(Get(tasks[t].row), tasks[t].pick))
    /\ tasks' = [tasks EXCEPT ![t] =
          CASE @.kind = "button" -> Finish(Say(@, "target_is", 0), "ok")
            [] @.kind = "photo" -> [@ EXCEPT !.row = None, !.pc = "tog_read"]]
    /\ UNCHANGED <<purchases, image_names, scheduler_logs>>
    /\ UNCHANGED_ENV

----------------------------------------------------------------------------
(* set_receive_flag: the command new_targets *)

OnNewTargets(t, u) ==
    /\ CanStart(t)
    /\ tasks' = [tasks EXCEPT ![t] =
          [NewTask EXCEPT !.kind = "new_targets", !.uid = u, !.flag = 1, !.pc = "ensure"]]
    /\ UNCHANGED_DB
    /\ UNCHANGED_ENV

\* set_receive_flag without the test of user.status
ReceiveUser_any_tier(t) ==
    /\ AtPc(t, "rf_read")
    /\ tasks' = [tasks EXCEPT ![t] =
          IF ~(@.uid \in DOMAIN users) THEN Finish(@, "raised")
          ELSE [@ EXCEPT !.pc = "tog_read"]]
    /\ UNCHANGED_DB
    /\ UNCHANGED_ENV

\* receive_user and the test of user.status, lines 293-299
ReceiveUser(t) ==
    /\ AtPc(t, "rf_read")
    /\ tasks' = [tasks EXCEPT ![t] =
          IF ~(@.uid \in DOMAIN users) THEN Finish(@, "raised")
          ELSE IF users[@.uid].status = "premium" THEN [@ EXCEPT !.pc = "tog_read"]
          ELSE Finish(Say(@, "need_premium", 0), "refused")]
    /\ UNCHANGED_DB
    /\ UNCHANGED_ENV

----------------------------------------------------------------------------
(* button_callback_handler: a target preset button *)

OnButton(t, u, n) ==
    /\ CanStart(t)
    /\ tasks' = [tasks EXCEPT ![t] =
          [NewTask EXCEPT !.kind = "button", !.uid = u, !.flag = 0,
                          !.pick = Preset(n), !.pc = "tog_read"]]
    /\ UNCHANGED_DB
    /\ UNCHANGED_ENV

----------------------------------------------------------------------------
(* update_user_quotas and log_scheduler_run: the scheduled job *)

OnSchedule(t) ==
    /\ CanStart(t)
    /\ tasks' = [tasks EXCEPT ![t] = [NewTask EXCEPT !.kind = "quotas", !.pc = "q_read"]]
    /\ UNCHANGED_DB
    /\ UNCHANGED_ENV

\* lines 714-715: select(User), all rows
QuotasRead(t) ==
    /\ AtPc(t, "q_read")
    /\ tasks' = [tasks EXCEPT ![t].snap = users, ![t].pc = "q_commit"]
    /\ UNCHANGED_DB
    /\ UNCHANGED_ENV

RECURSIVE DeleteExpiredAll(_, _, _)
\* the DELETEs of the loop, for the users loaded
DeleteExpiredAll(ps, us, today) ==
    IF us = {} THEN ps
    ELSE LET u == CHOOSE x \in us : TRUE
         IN  DeleteExpiredAll(DeleteExpired(ps, u, today), us \ {u}, today)

\* lines 717-726: the purchases left by the DELETEs of the loop
SweepPurchases(ps, snap, today) == DeleteExpiredAll(ps, DOMAIN snap, today)

\* lines 717-741: the rows left by the loop over the users loaded (snap) and
\* the commit, on the rows as they are now (us)
SweepUsers(us, ps, snap, today) ==
    LET left == SweepPurchases(ps, snap, today)
    IN  [u \in DOMAIN us |->
            IF u \in DOMAIN snap
            THEN Flush(us[u], snap[u],
                       update_user(snap[u], ActivePurchases(left, u, today), FREE_REQUESTS))
            ELSE us[u]]

\* lines 717-741: the loop over the users loaded and the commit.  The first
\* DELETE opens the write transaction, which holds the database's write lock
\* until the commit: no other task commits in between.
QuotasCommit(t) ==
    LET snap == tasks[t].snap
        today == DateOf(now)
    IN  /\ AtPc(t, "q_commit")
        /\ purchases' = SweepPurchases(purchases, snap, today)
        /\ users' = SweepUsers(users, purchases, snap, today)
        /\ tasks' = [tasks EXCEPT ![t].snap = EmptyFn, ![t].pc = "log_read"]
        /\ UNCHANGED <<image_names, scheduler_logs>>
        /\ UNCHANGED_ENV

\* log_scheduler_run, lines 186-197: the last entry of the job and the test
LogRead(t) ==
    /\ AtPc(t, "log_read")
    /\ tasks' = [tasks EXCEPT
          ![t].flag = IF scheduler_logs = <<>>
                         \/ now - scheduler_logs[Len(scheduler_logs)].run_datetime
                              >= HOUR_INTERVAL * HourSecs
                      THEN 1 ELSE 0,
          ![t].pc = "log_commit"]
    /\ UNCHANGED_DB
    /\ UNCHANGED_ENV

\* log_scheduler_run, lines 198-200: the new entry (run_datetime: func.now())
LogCommit(t) ==
    /\ AtPc(t, "log_commit")
    /\ scheduler_logs' = IF tasks[t].flag = 1
                         THEN Append(scheduler_logs, SchedulerLog(now))
                         ELSE scheduler_logs
    /\ tasks' = [tasks EXCEPT ![t] = Finish([@ EXCEPT !.flag = 0], "ok")]
    /\ UNCHANGED <<users, purchases, image_names>>
    /\ UNCHANGED_ENV

----------------------------------------------------------------------------
(* image_handler: prevent_multisending, then handle_image *)

\* prevent_multisending without the delay since the last accepted photo
prevent_multisending_no_delay(last_sent, grouped, dt) == ~grouped

\* prevent_multisending without the test of media_group_id
prevent_multisending_any_group(last_sent, grouped, dt) ==
    last_sent = None \/ dt - Get(last_sent) >= DELAY_BETWEEN_IMAGES

\* prevent_multisending that asks for more than the delay
prevent_multisending_strict(last_sent, grouped, dt) ==
    /\ ~grouped
    /\ (last_sent = None \/ dt - Get(last_sent) > DELAY_BETWEEN_IMAGES)

\* prevent_multisending, lines 129-136
prevent_multisending(last_sent, grouped, dt) ==
    /\ ~grouped
    /\ (last_sent = None \/ dt - Get(last_sent) >= DELAY_BETWEEN_IMAGES)

\* check_limit that lets a user with no request left through
check_limit_negative_only(user) == ~(user.requests_left < 0)

\* check_limit, lines 111-115
check_limit(user) == ~(user.requests_left <= 0)

\* check_time_limit, lines 118-126
check_time_limit(user, dt) ==
    \/ user.status = "premium"
    \/ ~(dt - user.last_photo_sent_timestamp < N_TIME)

\* image_handler, lines 318-322: a photo message arrives
OnPhoto(t, u, grouped) ==
    /\ CanStart(t)
    /\ LET task == [NewTask EXCEPT !.kind = "photo", !.uid = u, !.grouped = grouped]
       IN  IF prevent_multisending(SENT_TIME[u], grouped, now)
           THEN /\ SENT_TIME' = [SENT_TIME EXCEPT ![u] = Some(now)]
                /\ tasks' = [tasks EXCEPT ![t] = [task EXCEPT !.pc = "ensure"]]
           ELSE /\ UNCHANGED SENT_TIME
                /\ tasks' = [tasks EXCEPT ![t] =
                      Finish(Say(task, "one_at_a_time", 0), "multisend")]
    /\ UNCHANGED_DB
    /\ UNCHANGED <<now, ticks>>

\* handle_image, lines 147-151: fetch_user_data, check_limit, check_time_limit,
\* and datetime.now() for update_photo_timestamp
PhotoFetch(t) ==
    /\ AtPc(t, "fetch")
    /\ tasks' = [tasks EXCEPT ![t] =
          IF ~(@.uid \in DOMAIN users) THEN Finish(@, "raised")
          ELSE LET user == users[@.uid]
               IN  IF ~check_limit(user)
                   THEN Finish(Say(@, "out_of_attempts", 0), "no_quota")
                   ELSE IF ~check_time_limit(user, now)
                   THEN Finish(Say(@, "too_many_requests",
                                   N_TIME - (now - user.last_photo_sent_timestamp)),
                               "too_soon")
                   ELSE [@ EXCEPT !.user = Some(user), !.r0 = user.requests_left,
                                  !.ts = now, !.pc = "ts_read"]]
    /\ UNCHANGED_DB
    /\ UNCHANGED_ENV

\* update_photo_timestamp: the SELECT
PhotoTimestampRead(t) ==
    /\ AtPc(t, "ts_read")
    /\ Read(t, "ts_commit")

\* update_photo_timestamp: the commit
PhotoTimestampCommit(t) ==
    /\ AtPc(t, "ts_commit")
    /\ Commit(t, update_photo_timestamp(Get(tasks[t].row), tasks[t].ts))
    /\ tasks' = [tasks EXCEPT ![t].row = None, ![t].pc = "download"]
    /\ UNCHANGED <<purchases, image_names, scheduler_logs>>
    /\ UNCHANGED_ENV

\* target_image_check that never takes the photo as a target
target_image_check_never(user) == FALSE

\* target_image_check, line 285, on the user fetched on entry
target_image_check(user) == user.status = "premium" /\ user.receive_target_flag # 0

\* lines 154-180: get_file, generate_filename, log_input_image_data ->
\* create_image_entry (the generated file name is the task's id), the download
\* of the photo, target_image_check, and the POST to the worker.
\* res: "ok" (status 200), "non200", "raise" (session.get raises),
\* "bad_image" (save_img raises)
PhotoDownload(t, res) ==
    /\ AtPc(t, "download")
    /\ image_names' = Append(image_names, ImageName(tasks[t].uid, t))
    /\ tasks' = [tasks EXCEPT ![t] =
          CASE res = "non200" -> Finish(Say(@, "download_failed", 0), "download_failed")
            [] res = "raise" -> Finish(Say(@, "error", 0), "error")
            [] res = "bad_image" -> Finish(Say(Say(@, "received", 0), "error", 0), "error")
            [] res = "ok" ->
                 IF target_image_check(Get(@.user))
                 THEN [Say(@, "received", 0) EXCEPT !.pick = Image(t), !.flag = 0,
                                                    !.pc = "mode_read"]
                 ELSE [Say(@, "received", 0) EXCEPT !.worker = "called", !.pc = "waiting"]]
    /\ UNCHANGED <<users, purchases, scheduler_logs>>
    /\ UNCHANGED_ENV

\* the output references of a response with k outputs
Outputs(k) == [j \in 1..k |-> j]

\* update_image_entry that selects the rows by user_id alone
update_image_entry_by_user(rows, u, name, outs) ==
    [j \in DOMAIN rows |->
        IF rows[j].user_id = u
        THEN [rows[j] EXCEPT !.output_image_names =
                 IF outs # <<>> THEN Some(outs) ELSE None]
        ELSE rows[j]]

\* update_image_entry that stores the first output alone
update_image_entry_first_only(rows, u, name, outs) ==
    [j \in DOMAIN rows |->
        IF rows[j].user_id = u /\ rows[j].input_image_name = name
        THEN [rows[j] EXCEPT !.output_image_names =
                 IF outs # <<>> THEN Some(SubSeq(outs, 1, 1)) ELSE None]
        ELSE rows[j]]

\* update_image_entry, lines 459-465, on the rows of image_names
update_image_entry(rows, u, name, outs) ==
    [j \in DOMAIN rows |->
        IF rows[j].user_id = u /\ rows[j].input_image_name = name
        THEN [rows[j] EXCEPT !.output_image_names =
                 IF outs # <<>> THEN Some(outs) ELSE None]
        ELSE rows[j]]

\* lines 183-186 and 200-208: the worker's response, and on success
\* log_output_image_data -> update_image_entry.  res: "ok" with k outputs,
\* "non200", "raise" (transport exception or timeout)
PhotoWorkerReturn(t, res, k) ==
    /\ AtPc(t, "waiting")
    /\ tasks' = [tasks EXCEPT ![t] =
          CASE res = "non200" ->
                 Finish(Say([@ EXCEPT !.worker = "failed"], "process_failed", 0), "worker_failed")
            [] res = "raise" ->
                 Finish(Say([@ EXCEPT !.worker = "failed"], "error", 0), "error")
            [] res = "ok" ->
                 [@ EXCEPT !.worker = "ok", !.outs = Outputs(k), !.i = 1,
                           !.pc = IF k = 0 THEN "dec_read" ELSE "loop"]]
    /\ image_names' = IF res = "ok"
                      THEN update_image_entry(image_names, tasks[t].uid, t, Outputs(k))
                      ELSE image_names
    /\ UNCHANGED <<users, purchases, scheduler_logs>>
    /\ UNCHANGED_ENV

\* lines 188-194: one round of the loop over image_paths
PhotoSendOutput(t) ==
    /\ AtPc(t, "loop")
    /\ tasks' = [tasks EXCEPT ![t] =
          IF ~(@.uid \in DOMAIN users) THEN Finish(Say(@, "error", 0), "error")
          ELSE LET user == users[@.uid]
                   last == tasks[t].i = Len(tasks[t].outs)
               IN  IF ~check_limit(user)
                   THEN Finish(Say(@, "out_of_attempts", 0), "stopped")
                   ELSE [Say(@, "photo", @.outs[@.i])
                            EXCEPT !.user = Some(user), !.sent = @ + 1,
                                   !.i = @ + 1,
                                   !.pc = IF last THEN "dec_read" ELSE "loop"]]
    /\ UNCHANGED_DB
    /\ UNCHANGED_ENV

\* decrement_requests_left: the SELECT (from handle_image, line 196, or called
\* on its own)
DecrementRead(t) ==
    /\ AtPc(t, "dec_read")
    /\ Read(t, "dec_commit")

\* the argument n of decrement_requests_left: len(image_paths) in handle_image
DecrementArg(task) == IF task.kind = "photo" THEN Len(task.outs) ELSE task.flag

\* decrement_requests_left: the commit; handle_image, lines 197-198: the reply
DecrementCommit(t) ==
    LET n == DecrementArg(tasks[t])
    IN  /\ AtPc(t, "dec_commit")
        /\ Commit(t, decrement_requests_left(Get(tasks[t].row), n))
        /\ tasks' = [tasks EXCEPT ![t] =
              IF @.kind = "photo"
              THEN Finish(Say(@, "attempts_left", Max(0, Get(@.user).requests_left - n)), "ok")
              ELSE Finish(@, "ok")]
        /\ UNCHANGED <<purchases, image_names, scheduler_logs>>
        /\ UNCHANGED_ENV

\* decrement_requests_left(user_id, n), called on its own
OnDecrement(t, u, n) ==
    /\ CanStart(t)
    /\ tasks' = [tasks EXCEPT ![t] =
          [NewTask EXCEPT !.kind = "dec", !.uid = u, !.flag = n, !.pc = "dec_read"]]
    /\ UNCHANGED_DB
    /\ UNCHANGED_ENV

----------------------------------------------------------------------------
(* The initial states: the process starts (time 0, no task, SENT_TIME empty)  *)
(* over a database that earlier runs may have left.                            *)

\* a user who has used the bot as a free user and has r requests left; the
\* last photo was accepted N_TIME before the start
FreeUser(r) ==
    [User EXCEPT !.requests_left = r, !.last_photo_sent_timestamp = 0 - N_TIME]

\* a user who then bought premium at time 0 and may have asked for a new target
PremiumUser(r, flag) ==
    [buy_premium(FreeUser(r), 0) EXCEPT !.receive_target_flag = flag]

\* rows of InitDb: [kind, r, flag]
RowOf(c) == IF c.kind = "free" THEN FreeUser(c.r) ELSE PremiumUser(c.r, c.flag)

\* the database holding the one user described by c, or no user
InitDb(c) ==
    IF c.kind = "none"
    THEN [users |-> EmptyFn, purchases |-> <<>>]
    ELSE [users |-> ("u1" :> RowOf(c)),
          purchases |-> IF c.kind = "free" THEN <<>> ELSE <<PremiumPurchase("u1", 0)>>]

InitRest ==
    /\ image_names = <<>>
    /\ SENT_TIME = [u \in Uids |-> None]
    /\ now = 0
    /\ ticks = 0
    /\ tasks = [t \in TaskIds |-> NewTask]

\* the database of one of cs with one of the run-logs ls
InitLogged(cs, ls) ==
    /\ \E c \in cs : users = InitDb(c).users /\ purchases = InitDb(c).purchases
    /\ scheduler_logs \in ls
    /\ InitRest

InitFrom(cs) == InitLogged(cs, {<<>>})

\* no handler is between its start and its end
Quiet == \A t \in TaskIds : tasks[t].pc \in {"idle", "done"}

\* days pass; a handler lasts seconds (the HTTP calls time out after minutes)
Advance(d) ==
    /\ Quiet
    /\ Tick(d * DaySecs)

EnsureStep(t) == EnsureRead(t) \/ EnsureCommit(t)

BuyStep(t) == BuyRead(t) \/ BuyCommit(t) \/ BuyFetch(t)

FlagStep(t) == ToggleRead(t) \/ ToggleCommit(t) \/ ModeRead(t) \/ ModeCommit(t)

QuotasStep(t) == QuotasRead(t) \/ QuotasCommit(t) \/ LogRead(t) \/ LogCommit(t)

PhotoStep(t) ==
    \/ PhotoFetch(t) \/ PhotoTimestampRead(t) \/ PhotoTimestampCommit(t)
    \/ \E res \in {"ok", "non200", "raise", "bad_image"} : PhotoDownload(t, res)
    \/ \E k \in 0..MaxOutputs : PhotoWorkerReturn(t, "ok", k)
    \/ \E res \in {"non200", "raise"} : PhotoWorkerReturn(t, res, 0)
    \/ PhotoSendOutput(t)
    \/ DecrementRead(t) \/ DecrementCommit(t)

----------------------------------------------------------------------------
(* Spec: the photo traffic of the users *)

Init ==
    InitFrom([kind : {"none"}, r : {FREE_REQUESTS}, flag : {0}]
             \cup [kind : {"free"}, r : {0, 1, 2, FREE_REQUESTS}, flag : {0}]
             \cup [kind : {"premium"}, r : {FREE_REQUESTS}, flag : {0, 1}])

Next ==
    \/ \E t \in TaskIds :
          \/ \E u \in Senders, g \in BOOLEAN : OnPhoto(t, u, g)
          \/ EnsureStep(t)
          \/ PhotoStep(t)
          \/ FlagStep(t)
    \/ \E d \in {1, DELAY_BETWEEN_IMAGES, N_TIME} : Tick(d)

Spec == Init /\ [][Next]_vars

\* the event loop runs every handler that can go on; the HTTP calls return or
\* raise (they carry a timeout)
Fairness ==
    \A t \in TaskIds : WF_vars(EnsureStep(t) \/ PhotoStep(t) \/ FlagStep(t))

SpecLive == Spec /\ Fairness

----------------------------------------------------------------------------
(* SpecLedger: the commands and the scheduled job *)

\* the job has not run yet, or its last run was logged a minute before the start
InitLedger ==
    InitLogged([kind : {"none"}, r : {FREE_REQUESTS}, flag : {0}]
               \cup [kind : {"free"}, r : {1, FREE_REQUESTS}, flag : {0}]
               \cup [kind : {"premium"}, r : {FREE_REQUESTS}, flag : {0, 1}],
               {<<>>, <<SchedulerLog(0 - 60)>>})

NextLedger ==
    \/ \E t \in TaskIds :
          \/ \E u \in Uids : OnBuyPremium(t, u)
          \/ \E u \in Uids : OnResetLimit(t, u)
          \/ \E u \in Uids : OnNewTargets(t, u)
          \/ \E u \in Uids, n \in {2, NumButtons} : OnButton(t, u, n)
          \/ OnSchedule(t)
          \/ EnsureStep(t)
          \/ BuyStep(t)
          \/ SetRead(t)
          \/ ReceiveUser(t)
          \/ FlagStep(t)
          \/ QuotasStep(t)
    \/ \E d \in {1, PREMIUM_DAYS + 1} : Advance(d)

SpecLedger == InitLedger /\ [][NextLedger]_vars

----------------------------------------------------------------------------
(* SpecAll: every operation on the quota counters, the handlers and the     *)
(* storage functions called on their own                                    *)

InitAll ==
    InitFrom([kind : {"none"}, r : {FREE_REQUESTS}, flag : {0}]
             \cup [kind : {"free"}, r : {1, FREE_REQUESTS}, flag : {0}]
             \cup [kind : {"premium"}, r : {FREE_REQUESTS}, flag : {0}])

NextAll ==
    \/ \E t \in TaskIds :
          \/ \E u \in Senders : OnPhoto(t, u, FALSE)
          \/ \E u \in Senders : OnBuyPremium(t, u)
          \/ \E u \in Senders : OnResetLimit(t, u)
          \/ OnSchedule(t)
          \/ \E u \in Uids, n \in 0..MaxOutputs : OnDecrement(t, u, n)
          \/ \E u \in Uids, n \in {1, TARGETS_INCREMENT + 1} : OnDecrementTargets(t, u, n)
          \/ EnsureStep(t)
          \/ PhotoStep(t)
          \/ BuyStep(t)
          \/ SetRead(t)
          \/ QuotasStep(t)
          \/ DecTargetsRead(t) \/ DecTargetsCommit(t)
    \/ Tick(N_TIME)
    \/ Advance(PREMIUM_DAYS + 1)

SpecAll == InitAll /\ [][NextAll]_vars

----------------------------------------------------------------------------
(* SpecRounds: purchases and the scheduled job, round after round: when the *)
(* handlers of a round have all ended, later events start new ones          *)

\* purchases in the table beyond which no further round is started
MaxPurchases == 2

\* rows in image_names beyond which no further round is started
MaxImages == 2

\* the handlers that have ended are gone; the next events get new ones
Forget ==
    /\ \A t \in TaskIds : tasks[t].pc = "done"
    /\ Len(purchases) < MaxPurchases
    /\ Len(image_names) < MaxImages
    /\ tasks' = [t \in TaskIds |-> NewTask]
    /\ UNCHANGED_DB
    /\ UNCHANGED_ENV

InitRounds ==
    InitFrom([kind : {"none", "free", "premium"}, r : {FREE_REQUESTS}, flag : {0}])

NextRounds ==
    \/ \E t \in TaskIds :
          \/ \E u \in Senders : OnBuyPremium(t, u)
          \/ OnSchedule(t)
          \/ EnsureStep(t)
          \/ BuyStep(t)
          \/ QuotasStep(t)
    \/ \E d \in {PREMIUM_DAYS, PREMIUM_DAYS + 1} : Advance(d)
    \/ Forget

SpecRounds == InitRounds /\ [][NextRounds]_vars

----------------------------------------------------------------------------
(* SpecGate: the photos of two users, round after round *)

InitGate == InitFrom([kind : {"free"}, r : {FREE_REQUESTS}, flag : {0}])

NextGate ==
    \/ \E t \in TaskIds :
          \/ \E u \in Uids, g \in BOOLEAN : OnPhoto(t, u, g)
          \/ EnsureStep(t)
          \/ PhotoStep(t)
    \/ \E d \in {1, DELAY_BETWEEN_IMAGES} : Tick(d)
    \/ Forget

SpecGate == InitGate /\ [][NextGate]_vars

----------------------------------------------------------------------------
(* The claims *)

LastReply(task) == task.replies[Len(task.replies)].kind

PhotoOk(t) == tasks[t].kind = "photo" /\ tasks[t].out = "ok"

\* C1: for every user, requests_left and targets_left are never negative, in
\* every reachable state of every interleaving of the photo handler, the
\* decrements, buy_premium, the reset and the reconciliation.
C1_NonNegative ==
    \A u \in DOMAIN users :
        users[u].requests_left >= 0 /\ users[u].targets_left >= 0

\* a photo was answered with more outputs than the user had requests left, and
\* the decrement has left the counter at zero
C1_Witness ==
    \E t \in TaskIds :
        /\ PhotoOk(t)
        /\ Len(tasks[t].outs) > tasks[t].r0
        /\ users[tasks[t].uid].requests_left = 0

\* C2: no lost update.  Two handlers of the same user that both read
\* requests_left = r on entry and then decrement by n and m, with r >= n + m,
\* leave requests_left = r - n - m.
C2_NoLostUpdate ==
    \A t1, t2 \in TaskIds :
        ( /\ t1 < t2
          /\ PhotoOk(t1) /\ PhotoOk(t2)
          /\ tasks[t1].uid = tasks[t2].uid
          /\ tasks[t1].r0 = tasks[t2].r0
          /\ tasks[t1].r0 >= Len(tasks[t1].outs) + Len(tasks[t2].outs) )
        => users[tasks[t1].uid].requests_left
              = tasks[t1].r0 - Len(tasks[t1].outs) - Len(tasks[t2].outs)

\* C3: one accepted photo handled with nothing else going on, for a user with
\* r requests left and a worker response of k outputs: exactly min(r, k)
\* outputs are sent and requests_left ends at max(0, r - k).
C3_SendsWithinQuota ==
    \A t \in TaskIds :
        ( /\ PhotoOk(t)
          /\ \A s \in TaskIds \ {t} : tasks[s].pc = "idle" )
        => /\ tasks[t].sent = Min(tasks[t].r0, Len(tasks[t].outs))
           /\ users[tasks[t].uid].requests_left
                 = Max(0, tasks[t].r0 - Len(tasks[t].outs))

\* the positions of handle_image between the acceptance of the photo and the
\* worker's response
BeforeResponse == {"ts_read", "ts_commit", "download", "waiting"}

RetryReplies == {"download_failed", "process_failed", "error"}

\* C4: when the download or the worker call of an accepted photo fails, no
\* step of that attempt changes the user's requests_left, and the last reply
\* of the attempt is a retry-later reply.
C4_FailureKeepsQuota ==
    [][\A t \in TaskIds :
          ( /\ tasks[t].kind = "photo"
            /\ tasks[t].pc \in BeforeResponse
            /\ tasks'[t] # tasks[t]
            /\ tasks'[t].worker # "ok" )
          => /\ users'[tasks[t].uid].requests_left = users[tasks[t].uid].requests_left
             /\ tasks'[t].pc = "done" /\ tasks'[t].out # "target"
                   => /\ tasks'[t].out \in {"download_failed", "worker_failed", "error"}
                      /\ LastReply(tasks'[t]) \in RetryReplies
                      /\ tasks'[t].sent = 0
      ]_vars

\* the worker call of a photo has failed: the user has what was there on entry
C4_Witness ==
    \E t \in TaskIds :
        /\ tasks[t].out = "worker_failed"
        /\ tasks[t].worker = "failed"
        /\ LastReply(tasks[t]) = "process_failed"
        /\ users[tasks[t].uid].requests_left = tasks[t].r0

\* the row of image_names created for the photo of task t
EntriesOf(t) ==
    {j \in DOMAIN image_names :
        /\ image_names[j].user_id = tasks[t].uid
        /\ image_names[j].input_image_name = t}

\* C5: when the worker call of a photo fails, the ImageName row created for
\* the photo exists with no output; a row has outputs only if the worker
\* answered its request with success.
C5_FailedLeavesEmptyOutput ==
    /\ \A t \in TaskIds :
          (tasks[t].kind = "photo" /\ tasks[t].worker = "failed")
          => /\ EntriesOf(t) # {}
             /\ \A j \in EntriesOf(t) : image_names[j].output_image_names = None
    /\ \A j \in DOMAIN image_names :
          image_names[j].output_image_names # None
          => tasks[image_names[j].input_image_name].worker = "ok"

\* a worker call has failed while another photo of the same user has outputs
C5_Witness ==
    \E t, s \in TaskIds :
        /\ tasks[t].kind = "photo" /\ tasks[t].worker = "failed"
        /\ tasks[s].uid = tasks[t].uid /\ tasks[s].worker = "ok"
        /\ \E j \in EntriesOf(s) : image_names[j].output_image_names # None

\* C6: a decrement_requests_left(u, n) that nothing else interferes with (the
\* row it has loaded is the row it writes to) leaves requests_left at
\* max(0, r - n) and every other field of the user, and every other row, as it
\* was; for an unknown user it writes nothing.
C6_DecrementExact ==
    [][\A t \in TaskIds :
          (AtPc(t, "dec_commit") /\ tasks'[t].pc = "done")
          => LET u == tasks[t].uid
                 n == DecrementArg(tasks[t])
             IN  /\ u \in DOMAIN users /\ tasks[t].row = Some(users[u])
                       => users' = [users EXCEPT ![u].requests_left = Max(0, @ - n)]
                 /\ u \notin DOMAIN users => users' = users
                 /\ purchases' = purchases
      ]_vars

\* one photo handled on its own, with fewer outputs than requests left: the
\* counter has gone down by the number of outputs
C6_Witness ==
    \E t \in TaskIds :
        /\ PhotoOk(t)
        /\ \A s \in TaskIds \ {t} : tasks[s].pc = "idle"
        /\ Len(tasks[t].outs) > 0
        /\ Len(tasks[t].outs) < tasks[t].r0
        /\ users[tasks[t].uid].requests_left = tasks[t].r0 - Len(tasks[t].outs)

\* C7: in every reachable state receive_target_flag is set only for a user
\* whose status is premium, also after the reset or the reconciliation has
\* made the user free.
C7_FlagOnlyPremium ==
    \A u \in DOMAIN users :
        users[u].receive_target_flag # 0 => users[u].status = "premium"

\* C8: in every reachable state premium_expiration is set if and only if the
\* status is premium.
C8_ExpirationIffPremium ==
    \A u \in DOMAIN users :
        IsSome(users[u].premium_expiration) <=> users[u].status = "premium"

\* one run of update_user_quotas at date today on the database (us, ps)
QuotasRun(us, ps, today) ==
    [users |-> SweepUsers(us, ps, us, today),
     purchases |-> SweepPurchases(ps, us, today)]

\* C9: update_user_quotas is idempotent.  From every reachable database, a
\* second run at the same date, with nothing in between, leaves every user
\* row and the PremiumPurchase rows as the first run left them.
C9_QuotasIdempotent ==
    LET today == DateOf(now)
        once == QuotasRun(users, purchases, today)
        twice == QuotasRun(once.users, once.purchases, today)
    IN  twice = once

\* two runs of the job on the same day (the second has logged nothing), with
\* a premium user whose counter the reconciliation has set
C9_Witness ==
    /\ \A t \in TaskIds : tasks[t].kind = "quotas" /\ tasks[t].pc = "done"
    /\ Len(scheduler_logs) = 1
    /\ \E u \in DOMAIN users :
          /\ users[u].status = "premium"
          /\ users[u].requests_left = REQUEST_INCREMENT

\* C10: the commit of update_user_quotas leaves every user that has no
\* PremiumPurchase with expiration_date >= today with status free.
C10_NoPurchaseMeansFree ==
    [][\A t \in TaskIds :
          (AtPc(t, "q_commit") /\ tasks'[t].pc = "log_read")
          => \A u \in DOMAIN users' :
                ActivePurchases(purchases', u, DateOf(now)) = <<>>
                => users'[u].status = "free"
      ]_vars

\* a run has made a premium user free: the purchase has expired and is gone,
\* the target credits of the purchase are still there
C10_Witness ==
    \E t \in TaskIds :
        /\ tasks[t].kind = "quotas" /\ tasks[t].pc = "log_read"
        /\ \E u \in DOMAIN users :
              /\ users[u].status = "free"
              /\ users[u].targets_left = TARGETS_INCREMENT
              /\ ActivePurchases(purchases, u, DateOf(now)) = <<>>

\* C11: when a user holds two purchases that have not expired (buy_premium
\* called twice), the commit of update_user_quotas leaves the user with
\* requests_left = 200 and targets_left = 20, the sums of the increments.
C11_IncrementsSummed ==
    [][\A t \in TaskIds :
          (AtPc(t, "q_commit") /\ tasks'[t].pc = "log_read")
          => \A u \in DOMAIN tasks[t].snap :
                Len(ActivePurchases(purchases', u, DateOf(now))) = 2
                => /\ users'[u].requests_left = 2 * REQUEST_INCREMENT
                   /\ users'[u].targets_left = 2 * TARGETS_INCREMENT
      ]_vars

\* a second purchase was bought within the validity of the first and the job
\* has run since: 200 requests, 20 targets
C11_Witness ==
    \E t, s \in TaskIds :
        /\ tasks[t].kind = "buy" /\ tasks[t].out = "ok"
        /\ tasks[s].kind = "quotas" /\ tasks[s].pc = "done"
        /\ LET u == tasks[t].uid
           IN  /\ Len(ActivePurchases(purchases, u, DateOf(now))) = 2
               /\ users[u].requests_left = 2 * REQUEST_INCREMENT
               /\ users[u].targets_left = 2 * TARGETS_INCREMENT

\* C12: the commit of a buy_premium that nothing interferes with (the row it
\* has loaded is the row stored) appends exactly one PremiumPurchase of 100
\* requests and 10 targets that expires PREMIUM_DAYS after now, sets status to
\* premium and adds 100 to requests_left and 10 to targets_left.
C12_BuyAddsIncrement ==
    [][\A t \in TaskIds :
          (AtPc(t, "buy_commit") /\ tasks'[t].pc = "buy_fetch"
              /\ tasks[t].uid \in DOMAIN users
              /\ tasks[t].row = Some(users[tasks[t].uid]))
          => LET u == tasks[t].uid
                 expires == DateOf(now) + PREMIUM_DAYS
             IN  /\ purchases' = Append(purchases,
                        [user_id |-> u, purchase_date |-> DateOf(now),
                         expiration_date |-> expires,
                         targets_increment |-> 10, request_increment |-> 100])
                 /\ users' = [users EXCEPT ![u] =
                        [@ EXCEPT !.status = "premium",
                                  !.requests_left = @ + 100,
                                  !.targets_left = @ + 10,
                                  !.premium_expiration = Some(expires)]]
      ]_vars

\* /buy_premium of a free user with one request left has been answered:
\* premium, 101 requests, 10 targets, one purchase
C12_Witness ==
    \E t \in TaskIds :
        /\ tasks[t].kind = "buy" /\ tasks[t].out = "ok"
        /\ LastReply(tasks[t]) = "premium"
        /\ users[tasks[t].uid].status = "premium"
        /\ users[tasks[t].uid].requests_left = 1 + REQUEST_INCREMENT
        /\ users[tasks[t].uid].targets_left = TARGETS_INCREMENT
        /\ Len(purchases) = 1

\* the single (non-grouped) photo events of user u that have arrived
SinglePhotos(u) ==
    {t \in TaskIds : tasks[t].kind = "photo" /\ ~tasks[t].grouped /\ tasks[t].uid = u}

\* C13: of the single photo events of one user that arrive less than
\* DELAY_BETWEEN_IMAGES apart (all of them within the first 2 time units)
\* exactly one is passed on to handle_image; every other one is rejected with
\* the reply 'Please send one photo at a time.'
C13_OneAccepted ==
    now < DELAY_BETWEEN_IMAGES
    => \A u \in Uids :
          LET passed == {t \in SinglePhotos(u) : tasks[t].out # "multisend"}
          IN  SinglePhotos(u) # {}
              => /\ Cardinality(passed) = 1
                 /\ \A t \in SinglePhotos(u) \ passed :
                       /\ tasks[t].pc = "done"
                       /\ tasks[t].replies = <<Reply("one_at_a_time", 0)>>
                       /\ tasks[t].worker = "none"

\* two single photos one time unit apart: the first is in handle_image, the
\* second has been rejected
C13_Witness ==
    /\ now = 1
    /\ \E t1, t2 \in SinglePhotos("u1") :
          /\ t1 # t2
          /\ tasks[t1].out # "multisend"
          /\ tasks[t2].out = "multisend"
          /\ SENT_TIME["u1"] = Some(0)

\* C14: a photo of a grouped submission is rejected with the reply 'Please
\* send one photo at a time.' and changes nothing: no row of the database, no
\* entry of SENT_TIME, no worker call.
C14_GroupRejected ==
    [][\A t \in TaskIds :
          (tasks[t].pc = "idle" /\ tasks'[t].kind = "photo" /\ tasks'[t].grouped)
          => /\ tasks'[t].pc = "done" /\ tasks'[t].out = "multisend"
             /\ tasks'[t].replies = <<Reply("one_at_a_time", 0)>>
             /\ tasks'[t].worker = "none"
             /\ UNCHANGED <<users, purchases, image_names, scheduler_logs, SENT_TIME>>
      ]_vars

\* the first photo of a premium user is part of a group, and is rejected
C14_Witness ==
    \E t \in TaskIds :
        /\ tasks[t].kind = "photo" /\ tasks[t].grouped
        /\ tasks[t].out = "multisend"
        /\ SENT_TIME[tasks[t].uid] = None
        /\ tasks[t].uid \in DOMAIN users
        /\ users[tasks[t].uid].status = "premium"
        /\ users[tasks[t].uid].requests_left > 0

\* the positions of handle_image inside target_image_check
TargetPath == {"mode_read", "mode_commit", "tog_read", "tog_commit"}

\* task t is the only handler that has been started
Alone(t) == \A s \in TaskIds \ {t} : tasks[s].pc = "idle"

\* C15: a photo downloaded for a user fetched as premium with
\* receive_target_flag set goes to target_image_check and not to the worker;
\* no step there changes requests_left or targets_left; the commit of
\* update_user_mode stores the photo as the mode and the commit of
\* toggle_receive_target_flag clears the flag; handled on its own the photo
\* ends with the flag cleared, the mode at the photo and the counters as
\* they were.
C15_TargetUpload ==
    [][\A t \in TaskIds :
          (tasks[t].kind = "photo" /\ tasks'[t] # tasks[t])
          => LET u == tasks[t].uid
                 own == tasks[t].row = Some(users[u])
             IN  /\ ( /\ tasks[t].pc = "download"
                      /\ tasks'[t].pc \in {"waiting", "mode_read"}
                      /\ Get(tasks[t].user).status = "premium"
                      /\ Get(tasks[t].user).receive_target_flag # 0 )
                    => tasks'[t].pc = "mode_read" /\ tasks'[t].worker = "none"
                 /\ tasks[t].pc \in TargetPath
                    => /\ tasks'[t].worker = "none" /\ tasks'[t].sent = 0
                       /\ users'[u].requests_left = users[u].requests_left
                       /\ users'[u].targets_left = users[u].targets_left
                 /\ tasks[t].pc = "mode_commit" /\ own
                    => users' = [users EXCEPT ![u].mode = Image(t)]
                 /\ tasks[t].pc = "tog_commit" /\ own
                    => /\ users' = [users EXCEPT ![u].receive_target_flag = 0]
                       /\ tasks'[t].out = "target"
                       /\ LastReply(tasks'[t]) = "target_uploaded"
                 /\ tasks'[t].out = "target" /\ Alone(t)
                    => /\ users'[u].receive_target_flag = 0
                       /\ users'[u].mode = Image(t)
                       /\ users'[u].requests_left = tasks[t].r0
      ]_vars

\* the photo of a premium user who had asked for a new target has been stored
C15_Witness ==
    \E t \in TaskIds :
        /\ tasks[t].kind = "photo" /\ tasks[t].out = "target" /\ Alone(t)
        /\ tasks[t].worker = "none"
        /\ users[tasks[t].uid].status = "premium"
        /\ users[tasks[t].uid].receive_target_flag = 0
        /\ users[tasks[t].uid].mode = Image(t)
        /\ users[tasks[t].uid].requests_left = tasks[t].r0

\* C16: the command new_targets of a user whose status is not premium
\* changes no row and is answered with the notice that premium is needed; of
\* a premium user it goes on to toggle_receive_target_flag, whose commit sets
\* receive_target_flag to 1 and nothing else.
C16_NewTargetsPremiumOnly ==
    [][\A t \in TaskIds :
          (tasks[t].kind = "new_targets" /\ tasks'[t] # tasks[t]
              /\ tasks[t].uid \in DOMAIN users)
          => LET u == tasks[t].uid
             IN  /\ tasks[t].pc = "rf_read" /\ users[u].status # "premium"
                    => /\ users' = users
                       /\ tasks'[t].pc = "done" /\ tasks'[t].out = "refused"
                       /\ tasks'[t].replies = <<Reply("need_premium", 0)>>
                 /\ tasks[t].pc = "rf_read" /\ users[u].status = "premium"
                    => tasks'[t].pc = "tog_read" /\ users' = users
                 /\ tasks[t].pc = "tog_commit" /\ tasks[t].row = Some(users[u])
                    => /\ users' = [users EXCEPT ![u].receive_target_flag = 1]
                       /\ tasks'[t].replies = <<Reply("send_target", 0)>>
      ]_vars

\* a free user has asked for a new target and has been refused
C16_Witness ==
    \E t \in TaskIds :
        /\ tasks[t].kind = "new_targets" /\ tasks[t].out = "refused"
        /\ LastReply(tasks[t]) = "need_premium"
        /\ users[tasks[t].uid].status = "free"
        /\ users[tasks[t].uid].receive_target_flag = 0

\* C17: a target preset button pressed by an existing user: the commit of
\* toggle_receive_target_flag leaves the flag at 0 and the commit of
\* update_user_mode sets mode to the preset chosen, and neither changes
\* another column; pressed with nothing else going on it ends with the flag
\* off and the mode at the preset.
C17_ButtonSetsMode ==
    [][\A t \in TaskIds :
          (tasks[t].kind = "button" /\ tasks'[t] # tasks[t]
              /\ tasks[t].uid \in DOMAIN users)
          => LET u == tasks[t].uid
                 own == tasks[t].row = Some(users[u])
             IN  /\ tasks[t].pc = "tog_commit" /\ own
                    => users' = [users EXCEPT ![u].receive_target_flag = 0]
                 /\ tasks[t].pc = "mode_commit" /\ own
                    => users' = [users EXCEPT ![u].mode = tasks[t].pick]
                 /\ tasks[t].pc \notin {"tog_commit", "mode_commit"}
                    => users' = users
                 /\ tasks'[t].pc = "done" /\ Alone(t)
                    => /\ users'[u].receive_target_flag = 0
                       /\ users'[u].mode = tasks[t].pick
                       /\ tasks[t].pick \in {Preset(2), Preset(NumButtons)}
      ]_vars

\* a premium user has asked for a new target and then pressed the last
\* button: the flag is off again, the mode is the preset, the quota is as it was
C17_Witness ==
    \E t1, t2 \in TaskIds :
        /\ tasks[t1].kind = "new_targets" /\ tasks[t1].out = "ok"
        /\ tasks[t2].kind = "button" /\ tasks[t2].out = "ok"
        /\ tasks[t2].uid = tasks[t1].uid
        /\ LET user == users[tasks[t1].uid]
           IN  /\ user.receive_target_flag = 0
               /\ user.mode = Preset(NumButtons)
               /\ user.status = "premium"
               /\ user.requests_left = FREE_REQUESTS + REQUEST_INCREMENT

\* the last run of the job was logged less than HOUR_INTERVAL hours ago
WithinInterval ==
    /\ scheduler_logs # <<>>
    /\ now - scheduler_logs[Len(scheduler_logs)].run_datetime < HOUR_INTERVAL * HourSecs

\* C18: a run of update_user_quotas triggered less than the interval after
\* the last logged run skips the sweep: its commit changes no user row and
\* deletes no PremiumPurchase.
C18_SkipsWithinInterval ==
    [][\A t \in TaskIds :
          (AtPc(t, "q_commit") /\ tasks'[t].pc = "log_read" /\ WithinInterval)
          => users' = users /\ purchases' = purchases
      ]_vars

\* C19: at most one processing request of a user is in flight within the
\* rate-limit window: two photos of the same user that passed the checks less
\* than N_TIME apart are never both waiting for the worker's response.
C19_OneInFlight ==
    \A t1, t2 \in TaskIds :
        ( /\ t1 < t2
          /\ tasks[t1].kind = "photo" /\ tasks[t2].kind = "photo"
          /\ tasks[t1].uid = tasks[t2].uid
          /\ tasks[t1].worker = "called" /\ tasks[t2].worker = "called" )
        => tasks[t2].ts - tasks[t1].ts >= N_TIME

\* C20: set_requests_left(u, 10) of the reset command on an existing user
\* leaves requests_left = 10, status = free, targets_left = 0 and
\* premium_expiration cleared.
C20_ResetSetsFree ==
    [][\A t \in TaskIds :
          (AtPc(t, "set_read") /\ tasks'[t] # tasks[t] /\ tasks[t].uid \in DOMAIN users)
          => LET u == tasks[t].uid
             IN  /\ users'[u].requests_left = FREE_REQUESTS
                 /\ users'[u].status = "free"
                 /\ users'[u].targets_left = 0
                 /\ users'[u].premium_expiration = None
      ]_vars

\* C21: after a successful worker response the ImageName row of the request
\* holds all the output references the worker returned, in the worker's
\* order, whatever number of them has been sent to the user.
C21_AllOutputsStored ==
    \A t \in TaskIds :
        (tasks[t].kind = "photo" /\ tasks[t].worker = "ok")
        => /\ EntriesOf(t) # {}
           /\ \A j \in EntriesOf(t) :
                 image_names[j].output_image_names =
                    IF tasks[t].outs = <<>> THEN None ELSE Some(Outputs(Len(tasks[t].outs)))

\* the worker returned 3 outputs, fewer were sent, the row holds the 3
C21_Witness ==
    \E t \in TaskIds :
        /\ tasks[t].kind = "photo" /\ tasks[t].worker = "ok" /\ tasks[t].pc = "done"
        /\ Len(tasks[t].outs) = MaxOutputs
        /\ tasks[t].sent < Len(tasks[t].outs)
        /\ \E j \in EntriesOf(t) :
              image_names[j].output_image_names = Some(Outputs(MaxOutputs))

\* C22: the count of the reply 'You have n attempts left' is the requests_left
\* that the decrement of the request has just stored.
C22_ReplyIsStored ==
    [][\A t \in TaskIds :
          (tasks[t].kind = "photo" /\ AtPc(t, "dec_commit") /\ tasks'[t].pc = "done")
          => /\ LastReply(tasks'[t]) = "attempts_left"
             /\ tasks'[t].replies[Len(tasks'[t].replies)].n
                   = users'[tasks[t].uid].requests_left
      ]_vars

\* C23: a photo that passed prevent_multisending, of an existing user with
\* requests_left = 0 or, for a free user, with less than N_TIME since
\* last_photo_sent_timestamp, is answered with the reason and handling stops
\* there: no row of users changes, no ImageName row is created, no worker
\* call is made.
C23_RejectionMutatesNothing ==
    [][\A t \in TaskIds :
          (tasks[t].kind = "photo" /\ tasks'[t] # tasks[t]
              /\ tasks[t].pc \in {"ensure", "fetch"} /\ tasks[t].uid \in DOMAIN users)
          => LET user == users[tasks[t].uid]
                 no_quota == user.requests_left <= 0
                 too_soon == /\ ~no_quota
                             /\ user.status # "premium"
                             /\ now - user.last_photo_sent_timestamp < N_TIME
             IN  /\ tasks[t].pc = "ensure" => users' = users
                 /\ tasks[t].pc = "fetch" /\ no_quota
                    => /\ tasks'[t].out = "no_quota"
                       /\ tasks'[t].replies = <<Reply("out_of_attempts", 0)>>
                 /\ tasks[t].pc = "fetch" /\ too_soon
                    => /\ tasks'[t].out = "too_soon"
                       /\ LastReply(tasks'[t]) = "too_many_requests"
                 /\ tasks[t].pc = "fetch" /\ (no_quota \/ too_soon)
                    => /\ tasks'[t].pc = "done" /\ tasks'[t].worker = "none"
                       /\ UNCHANGED <<users, purchases, image_names, SENT_TIME>>
                       /\ \A j \in DOMAIN image_names :
                             image_names[j].input_image_name # t
      ]_vars

\* the photo of a user without requests left was refused: the row is as it
\* was at the start, there is no ImageName row
C23_Witness ==
    \E t \in TaskIds :
        /\ tasks[t].out = "no_quota" /\ Alone(t)
        /\ users[tasks[t].uid].requests_left = 0
        /\ users[tasks[t].uid].last_photo_sent_timestamp = 0 - N_TIME
        /\ image_names = <<>>

\* outcomes of a photo whose download or worker call failed
FailedAttempt == {"download_failed", "worker_failed", "error"}

\* the photos of user u, other than t, that passed both checks and have not
\* failed
NotFailed(t, u) ==
    {s \in TaskIds \ {t} :
        /\ tasks[s].kind = "photo" /\ tasks[s].uid = u
        /\ tasks[s].pc \in {"download", "waiting", "loop", "dec_read", "dec_commit", "done"}
        /\ tasks[s].out \in {"none", "ok", "stopped"}}

\* C24: a failed attempt opens no window: when a photo of a free user has
\* failed (download or worker), the time gate refuses a further photo of
\* that user only if some other photo of the user was accepted and has not
\* failed.
C24_WindowFromSuccess ==
    [][\A t \in TaskIds :
          (/\ tasks[t].kind = "photo" /\ AtPc(t, "fetch")
           /\ tasks[t].uid \in DOMAIN users
           /\ users[tasks[t].uid].status # "premium"
           /\ \E s \in TaskIds \ {t} :
                 /\ tasks[s].kind = "photo" /\ tasks[s].uid = tasks[t].uid
                 /\ tasks[s].out \in FailedAttempt
           /\ tasks'[t].out = "too_soon")
          => NotFailed(t, tasks[t].uid) # {}
      ]_vars

\* C25: the worker is called only after update_photo_timestamp has committed
\* the timestamp of this photo, and update_photo_timestamp is entered only
\* when check_limit and check_time_limit have both passed on the user just
\* fetched; the worker call is made from no other place.
C25_TimestampBeforeWorker ==
    [][\A t \in TaskIds :
          tasks[t].kind = "photo" =>
             LET u == tasks[t].uid
             IN  /\ (tasks[t].worker # "called" /\ tasks'[t].worker = "called")
                    => tasks[t].pc = "download"
                 /\ (tasks[t].pc # "download" /\ tasks'[t].pc = "download")
                    => /\ tasks[t].pc = "ts_commit"
                       /\ users'[u].last_photo_sent_timestamp = tasks[t].ts
                 /\ (tasks[t].pc # "ts_commit" /\ tasks'[t].pc = "ts_commit")
                    => tasks[t].pc = "ts_read"
                 /\ (tasks[t].pc # "ts_read" /\ tasks'[t].pc = "ts_read")
                    => /\ tasks[t].pc = "fetch"
                       /\ check_limit(users[u])
                       /\ check_time_limit(users[u], now)
                       /\ tasks'[t].ts = now
      ]_vars

\* the worker is working on a photo accepted after the start, and the stored
\* timestamp is that of the photo
C25_Witness ==
    \E t \in TaskIds :
        /\ tasks[t].kind = "photo" /\ tasks[t].worker = "called"
        /\ tasks[t].ts > 0
        /\ users[tasks[t].uid].last_photo_sent_timestamp = tasks[t].ts

\* C26: the commit of update_user_quotas leaves every user it has loaded
\* that has no purchase with expiration_date >= today as a reset would:
\* requests_left = FREE_REQUESTS, status free, premium_expiration cleared and
\* targets_left = 0.
C26_FallbackIsReset ==
    [][\A t \in TaskIds :
          (AtPc(t, "q_commit") /\ tasks'[t].pc = "log_read")
          => \A u \in DOMAIN tasks[t].snap :
                ActivePurchases(purchases', u, DateOf(now)) = <<>>
                => /\ users'[u].requests_left = FREE_REQUESTS
                   /\ users'[u].status = "free"
                   /\ users'[u].premium_expiration = None
                   /\ users'[u].targets_left = 0
      ]_vars

\* C28: a reset discards the premium entitlement: when the reset command has
\* been handled for a user and update_user_quotas commits afterwards, with no
\* purchase in between, the user is left with status free and
\* requests_left = FREE_REQUESTS.
C28_ResetDiscardsPremium ==
    [][\A t \in TaskIds :
          (AtPc(t, "q_commit") /\ tasks'[t].pc = "log_read")
          => \A s \in TaskIds \ {t} :
                (/\ tasks[s].kind = "reset" /\ tasks[s].pc = "done"
                 /\ tasks[s].uid \in DOMAIN tasks[t].snap
                 /\ \A b \in TaskIds : tasks[b].kind # "buy")
                => /\ users'[tasks[s].uid].status = "free"
                   /\ users'[tasks[s].uid].requests_left = FREE_REQUESTS
      ]_vars

\* C27: the commit of update_user_quotas leaves every user that holds a
\* purchase with expiration_date >= today with status premium, requests_left
\* the sum of the request increments and targets_left the sum of the target
\* increments of those purchases, whatever went before the run (the row has
\* not changed since the run loaded it).
C27_ActiveMeansPremium ==
    [][\A t \in TaskIds :
          (AtPc(t, "q_commit") /\ tasks'[t].pc = "log_read")
          => \A u \in DOMAIN tasks[t].snap :
                LET active == ActivePurchases(purchases', u, DateOf(now))
                IN  (active # <<>> /\ tasks[t].snap[u] = users[u])
                    => /\ users'[u].status = "premium"
                       /\ users'[u].requests_left = SumRequests(active)
                       /\ users'[u].targets_left = SumTargets(active)
      ]_vars

\* C29: the commit of update_user_quotas deletes exactly the expired
\* purchases: afterwards no purchase of a user has expiration_date < today,
\* and the purchases with expiration_date >= today are all there, unchanged
\* and in their order.
C29_SweepDeletesExpired ==
    [][\A t \in TaskIds :
          (AtPc(t, "q_commit") /\ tasks'[t].pc = "log_read")
          => LET today == DateOf(now)
             IN  /\ \A j \in DOMAIN purchases' :
                       purchases'[j].user_id \in DOMAIN users'
                       => ~(purchases'[j].expiration_date < today)
                 /\ SelectSeq(purchases', LAMBDA p : p.expiration_date >= today)
                    = SelectSeq(purchases, LAMBDA p : p.expiration_date >= today)
      ]_vars

\* the job has committed on the very day the only purchase left, bought
\* after the start, expires: the purchase is kept
C29_Witness ==
    \E t \in TaskIds :
        /\ tasks[t].kind = "quotas" /\ tasks[t].pc = "log_read"
        /\ Len(scheduler_logs) > 0
        /\ Len(purchases) = 1
        /\ purchases[1].purchase_date > 0
        /\ purchases[1].expiration_date = DateOf(now)

\* C30: a photo the worker has answered with success, of which at least one
\* output has been sent, ends with decrement_requests_left called for the
\* outputs sent and with the reply that states the requests left, also when
\* the loop stops before the last output: what has been sent is charged.
C30_SentIsCharged ==
    [][\A t \in TaskIds :
          (/\ tasks[t].kind = "photo" /\ tasks[t].worker = "ok"
           /\ tasks[t].sent > 0
           /\ tasks[t].pc # "done" /\ tasks'[t].pc = "done")
          => /\ tasks[t].pc = "dec_commit"
             /\ DecrementArg(tasks[t]) = tasks[t].sent
             /\ LastReply(tasks'[t]) = "attempts_left"
      ]_vars

\* the ImageName row of photo t has its outputs set
Recorded(t) == \E j \in EntriesOf(t) : IsSome(image_names[j].output_image_names)

\* C31: when the handling of a photo has ended, either the ImageName row of
\* the photo has its outputs set and decrement_requests_left has been
\* applied for the request, or the row has no output and the request has
\* consumed nothing; outputs are never recorded without the consumption.
C31_AllOrNothing ==
    \A t \in TaskIds :
        (tasks[t].kind = "photo" /\ tasks[t].pc = "done")
        => /\ Recorded(t) => (tasks[t].worker = "ok" /\ tasks[t].out = "ok")
           /\ ~Recorded(t) => (tasks[t].out = "ok" /\ tasks[t].worker = "ok"
                                  => tasks[t].outs = <<>>)

\* C32: every step that creates a user row creates it with status free,
\* requests_left = FREE_REQUESTS, targets_left = 0, premium_expiration unset,
\* receive_target_flag off and the default mode, whatever event the user is
\* first seen by.
C32_CreatedFree ==
    [][\A u \in Uids :
          (u \notin DOMAIN users /\ u \in DOMAIN users')
          => /\ users'[u].status = "free"
             /\ users'[u].requests_left = FREE_REQUESTS
             /\ users'[u].targets_left = 0
             /\ users'[u].premium_expiration = None
             /\ users'[u].receive_target_flag = 0
             /\ users'[u].mode = Preset(DEFAULT_MODE)
      ]_vars

\* a user first seen by the buy command has just been created, nothing has
\* been bought yet
C32_Witness ==
    \E t \in TaskIds :
        /\ tasks[t].kind = "buy" /\ tasks[t].pc = "buy_read"
        /\ tasks[t].uid \in DOMAIN users
        /\ users[tasks[t].uid] = User
        /\ purchases = <<>>

\* C33: every run of update_user_quotas that has swept user rows writes
\* exactly one row for the job to scheduler_logs: the step that ends the run
\* adds one row, no other step of the run adds any.  (The run is the only
\* handler started, so the rows were there when it swept.)
C33_OneLogPerSweep ==
    [][\A t \in TaskIds :
          (/\ tasks[t].kind = "quotas" /\ tasks'[t] # tasks[t]
           /\ Alone(t) /\ DOMAIN users # {})
          => IF AtPc(t, "log_commit")
             THEN /\ Len(scheduler_logs') = Len(scheduler_logs) + 1
                  /\ SubSeq(scheduler_logs', 1, Len(scheduler_logs)) = scheduler_logs
             ELSE scheduler_logs' = scheduler_logs
      ]_vars

\* C34: insert_user is idempotent.  A step of exist_user_check for a user
\* that has a row changes no row of users; for a user without a row it adds
\* the one row of that user and changes no other; and applied once more to
\* what the call has left, it changes nothing.
C34_EnsureIdempotent ==
    [][\A t \in TaskIds :
          (tasks[t].pc \in {"ensure", "ensure_commit"} /\ tasks'[t] # tasks[t])
          => LET u == tasks[t].uid
             IN  /\ u \in DOMAIN users => users' = users
                 /\ u \notin DOMAIN users
                    => /\ DOMAIN users' \subseteq DOMAIN users \cup {u}
                       /\ \A x \in DOMAIN users : users'[x] = users[x]
                 /\ tasks'[t].pc # "ensure_commit" => insert_user(users', u) = users'
                 /\ insert_user(insert_user(users, u), u) = insert_user(users, u)
      ]_vars

\* the second command of a user created in this run, who has bought premium
\* in between, is past exist_user_check: the row is as the purchase left it
C34_Witness ==
    \E t1, t2 \in TaskIds :
        /\ tasks[t1].kind = "buy" /\ tasks[t1].out = "ok"
        /\ tasks[t2].kind = "new_targets" /\ tasks[t2].uid = tasks[t1].uid
        /\ tasks[t2].pc \notin {"idle", "ensure", "ensure_commit"}
        /\ tasks[t1].uid \in DOMAIN users
        /\ users[tasks[t1].uid] = buy_premium(User, 0)

\* C35: every photo event leads to a state where its handler has ended and
\* has sent at least one reply to the user.
C35_PhotoAnswered ==
    \A t \in TaskIds :
        (tasks[t].kind = "photo") ~> (tasks[t].pc = "done" /\ tasks[t].replies # <<>>)

\* the step is the arrival of a photo handled by task t
Arrives(t) == tasks[t].pc = "idle" /\ tasks'[t].kind = "photo"

\* C36: SENT_TIME is written only when a photo is accepted.  A photo that is
\* rejected by prevent_multisending leaves SENT_TIME as it is; an accepted
\* photo sets the entry of its sender to the time of arrival and changes no
\* other entry; no other step changes SENT_TIME; and a single photo that
\* arrives DELAY_BETWEEN_IMAGES or more after the time in the sender's entry
\* is accepted.
C36_RejectionKeepsWindow ==
    [][/\ \A t \in TaskIds :
             Arrives(t)
             => LET u == tasks'[t].uid
                IN  /\ tasks'[t].out = "multisend" => SENT_TIME' = SENT_TIME
                    /\ tasks'[t].out # "multisend"
                       => SENT_TIME' = [SENT_TIME EXCEPT ![u] = Some(now)]
                    /\ (/\ ~tasks'[t].grouped
                        /\ IsSome(SENT_TIME[u])
                        /\ now >= Get(SENT_TIME[u]) + DELAY_BETWEEN_IMAGES)
                       => tasks'[t].out # "multisend"
       /\ (\A t \in TaskIds : ~Arrives(t)) => SENT_TIME' = SENT_TIME
      ]_vars

\* a single photo of a user was rejected (less than the delay after one that
\* was accepted in the round before), the next single photo of the user has
\* been accepted, and the other user's entry is of an earlier time
C36_Witness ==
    \E t1, t2 \in TaskIds :
        /\ t1 < t2
        /\ tasks[t1].kind = "photo" /\ tasks[t2].kind = "photo"
        /\ tasks[t1].uid = tasks[t2].uid
        /\ ~tasks[t1].grouped /\ ~tasks[t2].grouped
        /\ tasks[t1].out = "multisend"
        /\ tasks[t2].pc # "idle" /\ tasks[t2].out # "multisend"
        /\ SENT_TIME[tasks[t2].uid] = Some(now)
        /\ \E v \in Uids \ {tasks[t2].uid} :
              IsSome(SENT_TIME[v]) /\ Get(SENT_TIME[v]) < now

====
